---- MODULE Spec2Model ----
(***************************************************************************)
(* A model of the two React applications of the repository:                *)
(*   - the eval-server frontend (router, Dashboard, TraceView, AgentGraph  *)
(*     and the ApiClient they share), specification Spec; SpecDash is the  *)
(*     Dashboard's life under every backend answer, SpecPages the paging   *)
(*     of a loaded trace list, SpecGraph the zoom and pan of a loaded      *)
(*     agent graph;                                                        *)
(*   - the banking assistant (App.handleAsk and ResultCard),               *)
(*     specification SpecAsk; SpecInput is its question box and button.    *)
(* A nullable value (T | null) is a sequence of length at most one:       *)
(* <<>> is null and <<v>> is v.                                            *)
(***************************************************************************)
EXTENDS Integers, Sequences, FiniteSets, TLC

----------------------------------------------------------------------------
(* Bounds of the model *)

\* navigations (route or trace-id changes) in one behaviour
MaxNav == 3
\* Dashboard refresh rounds started in one behaviour
MaxRounds == 3
\* Dashboard refresh rounds in flight at once
MaxInFlight == 2
\* length of the longest trace list the dashboard endpoint returns
MaxTraces == 12
\* length of the longest intervention history the brain server returns
MaxHistory == 7
\* user gestures (zoom, wheel, mouse) on one AgentGraph instance
MaxGestures == 2
\* trace-view interactions (toggle, diagnose) on one TraceView instance
MaxTraceOps == 2
\* length of the longest trace list paged through (SpecPages)
MaxListLen == 65
\* zoom clicks made before the gestures that are explored (SpecGraph)
MaxZoomSteps == 13
\* length of the longest node list laid out (SpecLayout)
MaxNodes == 6

----------------------------------------------------------------------------
(* Program constants *)

tracesPerPage == 10
SliceEnd == 5
\* zoom is kept in thousandths: ZoomUnit is zoom = 1, ZoomMin is 0.1, ZoomMax is 3
ZoomUnit == 1000
ZoomMin == 100
ZoomMax == 3000

----------------------------------------------------------------------------
(* Generic helpers *)

None == <<>>
Some(v) == <<v>>

Min(a, b) == IF a <= b THEN a ELSE b
Max(a, b) == IF a >= b THEN a ELSE b

\* Array.prototype.slice(start, end) for 0 <= start, 0 <= end
Slice(s, start, end) == SubSeq(s, Min(start, Len(s)) + 1, Min(end, Len(s)))

\* Math.ceil(n / d) for n >= 0, d > 0
CeilDiv(n, d) == (n + d - 1) \div d

----------------------------------------------------------------------------
(* HTTP responses and ApiClient.fetchJson *)

\* A response as fetchJson sees it: net = fetch() resolved (no network
\* error), ok = response.ok, json = the parsed body (<<>>: the body is not
\* JSON, response.json() rejects).
Responses(bodies) ==
    { [net |-> FALSE, ok |-> FALSE, json |-> None] } \cup
    { [net |-> TRUE, ok |-> o, json |-> j] :
        o \in BOOLEAN, j \in {None} \cup { Some(b) : b \in bodies } }

Fulfilled(v) == [status |-> "fulfilled", value |-> Some(v)]
Rejected == [status |-> "rejected", value |-> None]

\* faulty variant: fetchJson without the response.ok test
FetchJsonNoOkCheck(resp) ==
    IF ~resp.net THEN Rejected
    ELSE IF resp.json = None THEN Rejected
    ELSE Fulfilled(resp.json[1])

\* fetchJson as settled by Promise.allSettled / try-catch: rejected on a
\* network error, on a non-ok status and on a body that is not JSON.
FetchJson(resp) ==
    IF ~resp.net THEN Rejected
    ELSE IF ~resp.ok THEN Rejected
    ELSE IF resp.json = None THEN Rejected
    ELSE Fulfilled(resp.json[1])

----------------------------------------------------------------------------
(* Response bodies of the backend services (types.ts, api.ts) *)

StatusBodies ==
    { [ok |-> TRUE,
       database |-> [connected |-> c, status |-> "up", trace_count |-> n],
       memory |-> [trace_count |-> 3],
       data_source |-> "db"] : c \in BOOLEAN, n \in {MaxTraces} }

TraceRowOf(i) == [trace_id |-> i, error_count |-> i % 2]

MkTraces(n) == [i \in 1..n |-> TraceRowOf(i)]

TraceLens == {0, 5, MaxTraces}

DashboardBodies ==
    { [total |-> n, trace_count |-> n, traces |-> MkTraces(n)] : n \in TraceLens }

MkHistory(n) == [i \in 1..n |-> [timestamp |-> i, decision |-> "allow"]]

HistoryLens == {3, MaxHistory}

HistoryBodies == { MkHistory(n) : n \in HistoryLens }

TraceIds == {1, 2}

\* GET /trace/:id answers {trace_id, count, events}
MkEvents(id, n) == [i \in 1..n |-> [trace_id |-> id, span_id |-> i]]

TraceBodies(id) ==
    { [trace_id |-> id, count |-> n, events |-> MkEvents(id, n)] : n \in {0, 2} }

----------------------------------------------------------------------------
(* State *)

VARIABLES
    route,          \* the matched route: "dash" (/), "trace", "graph"; "none" before the first render
    traceId,        \* useParams().traceId (null outside /trace/:traceId)
    inst,           \* identity of the mounted view instance
    navs,           \* navigations so far
    tabVisible,     \* document.visibilityState = "visible"
    dash,           \* Dashboard's useState values
    tv,             \* TraceView's useState values
    ag,             \* AgentGraph's useState values
    ops,            \* user interactions with the mounted instance so far
    intervals,      \* instances owning a live setInterval timer
    rounds,         \* Dashboard refresh rounds in flight
    roundsStarted,  \* refresh rounds started so far
    lastRound,      \* responses of the round the mounted Dashboard applied last
    lastGraph,      \* response the mounted AgentGraph's fetch received, or null
    tvFetches,      \* GET /trace/:id requests in flight
    agFetches,      \* GET /agent-graph requests in flight
    diagReqs,       \* POST /diagnose requests in flight
    sent,           \* requests issued so far, per endpoint
    triggers        \* mounts, interval ticks and trace-id changes so far

evalVars == <<route, traceId, inst, navs, tabVisible, dash, tv, ag, ops,
              intervals, rounds, roundsStarted, lastRound, lastGraph,
                   tvFetches,
              agFetches, diagReqs, sent, triggers>>

\* the banking assistant, a separate application
VARIABLES
    app,            \* App's useState values: question, loading, payload, error
    askPending,     \* the POST /api/ask in flight, or null
    posts,          \* the requests sent so far
    lastResp,       \* the response handleAsk received last, or null
    keyPresses      \* Cmd/Ctrl+Enter presses in the question box so far

askVars == <<app, askPending, posts, lastResp, keyPresses>>

vars == <<route, traceId, inst, navs, tabVisible, dash, tv, ag, ops,
          intervals, rounds, roundsStarted, lastRound, lastGraph,
                   tvFetches,
          agFetches, diagReqs, sent, triggers, app, askPending, posts,
          lastResp, keyPresses>>

Endpoints == {"status", "dashboard", "history", "trace", "graph", "diagnose"}
TriggerKinds == {"dashMount", "tick", "tvMount", "tvIdChange", "agMount"}

Bump(f, keys) == [k \in DOMAIN f |-> IF k \in keys THEN f[k] + 1 ELSE f[k]]

\* A URL is an origin ("" for a URL relative to the page) and the
\* segments of its path.
baseUrl == [origin |-> "", path |-> <<"api">>]
brainUrl == [origin |-> "", path |-> <<"brain">>]

\* the URL each request is made to (api.ts 22, 27, 41, 49, 77; types.ts
\* 155); id is the trace id of a trace-details request
RequestUrl(e, id) ==
    CASE e = "history" -> [brainUrl EXCEPT !.path = @ \o <<"history">>]
      [] e = "status" -> [baseUrl EXCEPT !.path = @ \o <<"status">>]
      [] e = "dashboard" -> [baseUrl EXCEPT !.path = @ \o <<"dashboard">>]
      [] e = "trace" -> [baseUrl EXCEPT !.path = @ \o <<"trace", id>>]
      [] e = "graph" -> [baseUrl EXCEPT !.path = @ \o <<"agent-graph">>]
      [] e = "diagnose" -> [origin |-> "http://127.0.0.1:5051",
                            path |-> <<"diagnose">>]

\* the dev server's proxy table (App.tsx 29-40): where a request made to
\* the page's origin is forwarded, null when no entry matches
Proxy(url) ==
    IF url.origin # "" \/ url.path = <<>> THEN None
    ELSE IF Head(url.path) = "api"
    THEN Some([origin |-> "http://127.0.0.1:5051", path |-> Tail(url.path)])
    ELSE IF Head(url.path) = "brain"
    THEN Some([origin |-> "http://127.0.0.1:5000", path |-> Tail(url.path)])
    ELSE None

----------------------------------------------------------------------------
(* Dashboard (components/Dashboard.tsx) *)

DashInitial ==
    [status |-> None, traces |-> <<>>, interventions |-> <<>>,
     loading |-> TRUE, error |-> None, currentPage |-> 1]

FetchError == "Failed to fetch dashboard data"

\* lines 29-33
NextStatus(res) ==
    IF res.status = "fulfilled" THEN res.value ELSE None

\* lines 35-39
NextTraces(res) ==
    IF res.status = "fulfilled" THEN res.value[1].traces ELSE <<>>

\* lines 41-46
NextInterventions(res) ==
    IF res.status = "fulfilled" THEN Slice(res.value[1], 0, SliceEnd) ELSE <<>>

\* faulty variant: the top-level error is raised when either core request fails
NextErrorEither(statusResult, dashboardResult) ==
    IF statusResult.status = "rejected" \/ dashboardResult.status = "rejected"
    THEN Some(FetchError) ELSE None

\* lines 48-56
NextError(statusResult, dashboardResult) ==
    IF statusResult.status = "rejected" /\ dashboardResult.status = "rejected"
    THEN Some(FetchError) ELSE None

\* fetchData after the await (lines 25-62); no statement of the try block
\* throws on bodies of the declared types, so the catch block is not taken
FetchDataContinuation(d, statusResult, dashboardResult, interventionsResult) ==
    [d EXCEPT !.status = NextStatus(statusResult),
              !.traces = NextTraces(dashboardResult),
              !.interventions = NextInterventions(interventionsResult),
              !.error = NextError(statusResult, dashboardResult),
              !.loading = FALSE]

\* the three requests of fetchData go out (lines 19-23)
SendRound(i, inFlight) ==
    /\ rounds' = inFlight \cup {[id |-> roundsStarted + 1, inst |-> i]}
    /\ roundsStarted' = roundsStarted + 1
    /\ sent' = Bump(sent, {"status", "dashboard", "history"})

\* fetchData up to the await (lines 17-23): setLoading(true) on the
\* instance the closure belongs to, and the three requests go out
FetchDataStart(i) ==
    /\ dash' = IF i = inst /\ route = "dash"
               THEN [dash EXCEPT !.loading = TRUE] ELSE dash
    /\ SendRound(i, rounds)

\* faulty variant: the callback skips the refresh while a round is in flight
IntervalCallbackSkipBusy(i) ==
    IF rounds = {} THEN FetchDataStart(i)
    ELSE UNCHANGED <<dash, rounds, roundsStarted, sent>>

\* the function handed to setInterval (line 68)
IntervalCallback(i) == FetchDataStart(i)

\* faulty variant: the effect returns no cleanup
DashCleanupLeak(timers, i) == timers

\* the effect's cleanup (line 69): clearInterval(interval)
DashCleanup(timers, i) == timers \ {i}

\* the 10-second timer of instance i fires; browsers keep firing a
\* 10-second timer in a hidden tab, and the code never reads visibility
DashTick(i) ==
    /\ i \in intervals
    /\ roundsStarted < MaxRounds
    /\ Cardinality(rounds) < MaxInFlight
    /\ triggers' = Bump(triggers, {"tick"})
    /\ IntervalCallback(i)
    /\ UNCHANGED <<route, traceId, inst, navs, tabVisible, tv, ag, ops,
                   intervals, lastRound, lastGraph,
                   tvFetches, agFetches, diagReqs,
                   askPending, posts, lastResp, app,
                   keyPresses>>

\* what a response amounts to: whether the request succeeded, and its body
Outcome(resp) ==
    IF resp.net /\ resp.ok /\ resp.json # None
    THEN [ok |-> TRUE, body |-> resp.json]
    ELSE [ok |-> FALSE, body |-> None]

\* Promise.allSettled settles once all three requests have; the
\* continuation of fetchData runs then.  setState of an unmounted
\* instance has no effect.
FetchDataSettle(r, sr, dr, ir) ==
    /\ r \in rounds
    /\ rounds' = rounds \ {r}
    /\ IF r.inst = inst /\ route = "dash"
       THEN /\ dash' = FetchDataContinuation(dash, FetchJson(sr), FetchJson(dr),
                                             FetchJson(ir))
            /\ lastRound' = Some([status |-> Outcome(sr), dashboard |-> Outcome(dr),
                                  history |-> Outcome(ir)])
       ELSE UNCHANGED <<dash, lastRound>>
    /\ UNCHANGED <<route, traceId, inst, navs, tabVisible, tv, ag, ops,
                   intervals, roundsStarted, lastGraph, tvFetches, agFetches,
                   diagReqs, sent, triggers,
                   askPending, posts, lastResp, app,
                   keyPresses>>

\* lines 93-94
TotalPages(d) == CeilDiv(Len(d.traces), tracesPerPage)

\* faulty variant: the page starts one page too far
CurrentTracesOffByOne(d) ==
    Slice(d.traces, d.currentPage * tracesPerPage,
          d.currentPage * tracesPerPage + tracesPerPage)

\* lines 95-97: the rows of the displayed page
CurrentTraces(d) ==
    LET startIndex == (d.currentPage - 1) * tracesPerPage
        endIndex == startIndex + tracesPerPage
    IN  Slice(d.traces, startIndex, endIndex)

\* the dashboard body is rendered (lines 72-88 return early otherwise)
DashRendered ==
    /\ route = "dash"
    /\ ~(dash.loading /\ dash.status = None)
    /\ ~(dash.error # None /\ dash.status = None)

\* the pagination bar is rendered (lines 180, 250)
PaginationRendered ==
    DashRendered /\ Len(dash.traces) > 0 /\ TotalPages(dash) > 1

\* faulty variant: the window around the current page is the page alone
ShowPageCurrentOnly(page, d) ==
    \/ page = 1
    \/ page = TotalPages(d)
    \/ page = d.currentPage

\* lines 273-275
ShowPage(page, d) ==
    \/ page = 1
    \/ page = TotalPages(d)
    \/ (page >= d.currentPage - 1 /\ page <= d.currentPage + 1)

\* lines 272-299: what the map over the pages 1..totalPages gives for a page
PageItem(page, d) ==
    IF ~ShowPage(page, d)
    THEN IF page = d.currentPage - 2 \/ page = d.currentPage + 2
         THEN "ellipsis" ELSE "null"
    ELSE "button"

\* lines 271-300: the row of page buttons
PageBar(d) == [page \in 1..TotalPages(d) |-> PageItem(page, d)]

\* faulty variant: Next without the upper clamp
goToNextUnclamped(d) == [d EXCEPT !.currentPage = @ + 1]

\* lines 103-105: the state update of goToPrevious
goToPrevious(d) == [d EXCEPT !.currentPage = Max(1, @ - 1)]

\* lines 107-109: the state update of goToNext
goToNext(d) == [d EXCEPT !.currentPage = Min(TotalPages(d), @ + 1)]

DashClick(d) ==
    /\ tabVisible
    /\ dash' = d
    /\ UNCHANGED <<route, traceId, inst, navs, tabVisible, tv, ag, ops,
                   intervals, rounds, roundsStarted, lastRound, lastGraph,
                   tvFetches,
                   agFetches, diagReqs, sent, triggers,
                   askPending, posts, lastResp, app,
                   keyPresses>>

\* lines 99-101, 286-297
GoToPage(page) ==
    /\ PaginationRendered
    /\ page \in 1..TotalPages(dash)
    /\ ShowPage(page, dash)
    /\ DashClick([dash EXCEPT !.currentPage = page])

\* lines 103-105, 258-260: the button is disabled on page 1
GoToPrevious ==
    /\ PaginationRendered
    /\ dash.currentPage # 1
    /\ DashClick(goToPrevious(dash))

\* lines 107-109, 302-304: the button is disabled on the last page
GoToNext ==
    /\ PaginationRendered
    /\ dash.currentPage # TotalPages(dash)
    /\ DashClick(goToNext(dash))

----------------------------------------------------------------------------
(* TraceView (types.ts 54-597) *)

TraceViewInitial ==
    [events |-> <<>>, loading |-> TRUE, error |-> None,
     expandedPreviews |-> {}, diagnosing |-> FALSE, diagnosis |-> None,
     diagnosisError |-> None, showDiagnosisModal |-> FALSE]

\* fetchTraceDetails up to the await (lines 71-76), for a non-empty traceId
FetchTraceStart(i, id, inFlight) ==
    /\ tvFetches' = inFlight \cup {[inst |-> i, traceId |-> id, n |-> sent.trace + 1]}
    /\ sent' = Bump(sent, {"trace"})

\* faulty variant: the effect has no dependency on traceId and does not re-run
TraceIdChangedNoEffect(id) ==
    /\ tv' = tv
    /\ UNCHANGED <<tvFetches, sent>>

\* the effect re-runs when traceId changes (deps [traceId], line 88); the
\* instance and the rest of its state are kept
TraceIdChanged(id) ==
    /\ tv' = [tv EXCEPT !.loading = TRUE]
    /\ FetchTraceStart(inst, id, tvFetches)

\* fetchTraceDetails after the await (lines 76-84); getTraceDetails
\* returns the events of the body (api.ts 44-51)
FetchTraceContinuation(t, res) ==
    IF res.status = "fulfilled"
    THEN [t EXCEPT !.events = res.value[1].events, !.error = None,
                   !.loading = FALSE]
    ELSE [t EXCEPT !.error = Some("Failed to fetch trace details"),
                   !.loading = FALSE]

FetchTraceSettle(f, resp) ==
    /\ f \in tvFetches
    /\ tvFetches' = tvFetches \ {f}
    /\ tv' = IF f.inst = inst /\ route = "trace"
             THEN FetchTraceContinuation(tv, FetchJson(resp)) ELSE tv
    /\ UNCHANGED <<route, traceId, inst, navs, tabVisible, dash, ag, ops,
                   intervals, rounds, roundsStarted, lastRound, lastGraph,
                   agFetches,
                   diagReqs, sent, triggers,
                   askPending, posts, lastResp, app,
                   keyPresses>>

\* the trace page is rendered (lines 90-106 return early otherwise)
TraceRendered == route = "trace" /\ ~tv.loading

TraceClick(t) ==
    /\ tabVisible
    /\ TraceRendered
    /\ ops < MaxTraceOps
    /\ ops' = ops + 1
    /\ tv' = t

\* togglePreviewExpansion (lines 124-132), index of a rendered event row
TogglePreviewExpansion(index) ==
    /\ index \in 0..(Len(tv.events) - 1)
    /\ TraceClick([tv EXCEPT !.expandedPreviews =
                      IF index \in @ THEN @ \ {index} ELSE @ \cup {index}])
    /\ UNCHANGED <<route, traceId, inst, navs, tabVisible, dash, ag,
                   intervals, rounds, roundsStarted, lastRound, lastGraph,
                   tvFetches,
                   agFetches, diagReqs, sent, triggers,
                   askPending, posts, lastResp, app,
                   keyPresses>>

\* handleDiagnose up to the await (lines 134-161); the button is disabled
\* while diagnosing
HandleDiagnose ==
    /\ ~tv.diagnosing
    /\ TraceClick([tv EXCEPT !.diagnosing = TRUE, !.diagnosis = None,
                             !.diagnosisError = None])
    /\ diagReqs' = diagReqs \cup
                   {[inst |-> inst, traceId |-> traceId, n |-> sent.diagnose + 1]}
    /\ sent' = Bump(sent, {"diagnose"})
    /\ UNCHANGED <<route, traceId, inst, navs, tabVisible, dash, ag,
                   intervals, rounds, roundsStarted, lastRound, lastGraph,
                   tvFetches,
                   agFetches, triggers,
                   askPending, posts, lastResp, app,
                   keyPresses>>

\* bodies of POST /diagnose: {error?, diagnosis?}; "" is a falsy string
DiagnoseBodies ==
    { [error |-> e, diagnosis |-> d] : e \in {"", "boom"}, d \in {"", "text"} }

\* handleDiagnose after the await (lines 163-186)
DiagnoseContinuation(t, resp) ==
    LET failure(msg) == [t EXCEPT !.diagnosisError = Some(msg),
                                  !.showDiagnosisModal = TRUE,
                                  !.diagnosing = FALSE]
    IN  IF ~resp.net THEN failure("Failed to fetch")
        ELSE IF ~resp.ok THEN failure("HTTP error")
        ELSE IF resp.json = None THEN failure("Unexpected token")
        ELSE IF resp.json[1].error # "" THEN failure(resp.json[1].error)
        ELSE [t EXCEPT !.diagnosis =
                          Some(IF resp.json[1].diagnosis # ""
                               THEN resp.json[1].diagnosis
                               ELSE "No diagnosis available"),
                       !.showDiagnosisModal = TRUE,
                       !.diagnosing = FALSE]

DiagnoseSettle(q, resp) ==
    /\ q \in diagReqs
    /\ diagReqs' = diagReqs \ {q}
    /\ tv' = IF q.inst = inst /\ route = "trace"
             THEN DiagnoseContinuation(tv, resp) ELSE tv
    /\ UNCHANGED <<route, traceId, inst, navs, tabVisible, dash, ag, ops,
                   intervals, rounds, roundsStarted, lastRound, lastGraph,
                   tvFetches,
                   agFetches, sent, triggers,
                   askPending, posts, lastResp, app,
                   keyPresses>>

\* the modal's close button (line 552)
CloseDiagnosisModal ==
    /\ tv.showDiagnosisModal
    /\ TraceClick([tv EXCEPT !.showDiagnosisModal = FALSE])
    /\ UNCHANGED <<route, traceId, inst, navs, tabVisible, dash, ag,
                   intervals, rounds, roundsStarted, lastRound, lastGraph,
                   tvFetches,
                   agFetches, diagReqs, sent, triggers,
                   askPending, posts, lastResp, app,
                   keyPresses>>

----------------------------------------------------------------------------
(* AgentGraph (types.ts 599-1079) *)

AgentGraphInitial ==
    [graphData |-> None, loading |-> TRUE, error |-> None, zoom |-> ZoomUnit,
     panX |-> 0, panY |-> 0, isDragging |-> FALSE,
     lastMousePos |-> [x |-> 0, y |-> 0]]

\* the fixed table of positionNodes (lines 702-711)
positions ==
    ("__start__" :> [x |-> 400, y |-> 50]) @@
    ("plan_workflow" :> [x |-> 400, y |-> 150]) @@
    ("guardrails" :> [x |-> 200, y |-> 250]) @@
    ("db_agent" :> [x |-> 300, y |-> 350]) @@
    ("viz_agent" :> [x |-> 400, y |-> 350]) @@
    ("web_agent" :> [x |-> 500, y |-> 350]) @@
    ("respond" :> [x |-> 400, y |-> 450]) @@
    ("__end__" :> [x |-> 400, y |-> 550])

\* The names every object inherits from Object.prototype: positions[id]
\* (line 717) finds them too, giving a function or an object, which is
\* truthy and has no x and no y.
ObjectPrototypeKeys ==
    {"constructor", "__proto__", "hasOwnProperty", "isPrototypeOf",
     "propertyIsEnumerable", "toLocaleString", "toString", "valueOf",
     "__defineGetter__", "__defineSetter__", "__lookupGetter__",
     "__lookupSetter__"}

RECURSIVE SortedSeq(_)
SortedSeq(S) ==
    IF S = {} THEN <<>>
    ELSE LET m == CHOOSE x \in S : \A y \in S : x <= y
         IN  <<m>> \o SortedSeq(S \ {m})

\* positionNodes (lines 697-730).  The Map keeps one entry per id, at the
\* place of the id's first occurrence and holding a copy of its last
\* occurrence; findIndex gives the (0-based) first occurrence.  x and y
\* (x?: number) are null when undefined.
positionNodes(nodes, edges) ==
    LET firsts == SortedSeq({ i \in 1..Len(nodes) :
                       \A j \in 1..(i - 1) : nodes[j].id # nodes[i].id })
        last(id) == CHOOSE i \in 1..Len(nodes) :
                       /\ nodes[i].id = id
                       /\ \A j \in (i + 1)..Len(nodes) : nodes[j].id # id
        place(k) ==
            LET id == nodes[firsts[k]].id
                n == nodes[last(id)]
                index == firsts[k] - 1
            IN  IF id \in DOMAIN positions
                THEN [id |-> id, label |-> n.label, type |-> n.type,
                      x |-> Some(positions[id].x), y |-> Some(positions[id].y)]
                ELSE IF id \in ObjectPrototypeKeys
                THEN [id |-> id, label |-> n.label, type |-> n.type,
                      x |-> None, y |-> None]
                ELSE [id |-> id, label |-> n.label, type |-> n.type,
                      x |-> Some(100 + (index % 5) * 150),
                      y |-> Some(100 + (index \div 5) * 100)]
    IN  [k \in 1..Len(firsts) |-> place(k)]

NodeOf(id, label) == [id |-> id, label |-> label, type |-> "agent"]

GraphBodies ==
    { [nodes |-> ns, edges |-> <<>>, description |-> "workflow"] :
        ns \in { <<NodeOf("__start__", "s"), NodeOf("tool", "t"),
                   NodeOf("respond", "r")>>,
                 <<NodeOf("tool", "t1"), NodeOf("extra", "e"),
                   NodeOf("tool", "t2")>> } }

\* the node lists laid out: the workflow's eight nodes, and every list of
\* up to MaxNodes nodes over a node of the table, another node and a
\* node named as a member of Object.prototype
LayoutIds == {"__end__", "tool", "constructor"}

LayoutNodes ==
    { [i \in 1..8 |->
         NodeOf(<<"__start__", "plan_workflow", "guardrails", "db_agent",
                  "viz_agent", "web_agent", "respond", "__end__">>[i], "w")] }
    \cup UNION { { [i \in 1..n |-> NodeOf(ids[i], "n")] : ids \in [1..n -> LayoutIds] } :
                 n \in 0..MaxNodes }

LayoutEdges ==
    { <<>>, <<[source |-> "tool", target |-> "__end__", label |-> "calls"]>> }

LayoutBodies ==
    { [nodes |-> ns, edges |-> es, description |-> "workflow"] :
        ns \in LayoutNodes, es \in LayoutEdges }

\* fetchGraphData up to the await (lines 634-637)
FetchGraphStart(i, inFlight) ==
    /\ agFetches' = inFlight \cup {[inst |-> i, n |-> sent.graph + 1]}
    /\ sent' = Bump(sent, {"graph"})

\* fetchGraphData after the await (lines 637-651)
FetchGraphContinuation(g, res) ==
    IF res.status = "fulfilled"
    THEN [g EXCEPT !.graphData =
                      Some([res.value[1] EXCEPT !.nodes =
                               positionNodes(res.value[1].nodes,
                                             res.value[1].edges)]),
                   !.error = None, !.loading = FALSE]
    ELSE [g EXCEPT !.error = Some("Failed to fetch agent graph"),
                   !.loading = FALSE]

FetchGraphSettle(f, resp) ==
    /\ f \in agFetches
    /\ agFetches' = agFetches \ {f}
    /\ ag' = IF f.inst = inst /\ route = "graph"
             THEN FetchGraphContinuation(ag, FetchJson(resp)) ELSE ag
    /\ lastGraph' = IF f.inst = inst /\ route = "graph"
                    THEN Some(Outcome(resp)) ELSE lastGraph
    /\ UNCHANGED <<route, traceId, inst, navs, tabVisible, dash, tv, ops,
                   intervals, rounds, roundsStarted, lastRound, tvFetches,
                   diagReqs, sent, triggers,
                   askPending, posts, lastResp, app,
                   keyPresses>>

\* the graph page is rendered (lines 743-768 return early otherwise)
GraphRendered ==
    route = "graph" /\ ~ag.loading /\ ag.error = None /\ ag.graphData # None

Gesture(g) ==
    /\ tabVisible
    /\ GraphRendered
    /\ ops < MaxGestures
    /\ ops' = ops + 1
    /\ ag' = g
    /\ UNCHANGED <<route, traceId, inst, navs, tabVisible, dash, tv,
                   intervals, rounds, roundsStarted, lastRound, lastGraph,
                   tvFetches,
                   agFetches, diagReqs, sent, triggers,
                   askPending, posts, lastResp, app,
                   keyPresses>>

\* the zoom update of handleWheel (lines 659-660): factor 0.9 when
\* deltaY > 0, else 1.1
WheelZoom(prev, deltaYPositive) ==
    Max(ZoomMin, Min(ZoomMax,
        IF deltaYPositive THEN (prev * 9) \div 10 ELSE (prev * 11) \div 10))

\* the zoom update of zoomIn (line 684)
ZoomInStep(prev) == Min(ZoomMax, (prev * 12) \div 10)

\* faulty variant: zoomOut without the lower clamp
ZoomOutStepUnclamped(prev) == (prev * 10) \div 12

\* the zoom update of zoomOut (line 688)
ZoomOutStep(prev) == Max(ZoomMin, (prev * 10) \div 12)

\* handleWheel (lines 657-661)
handleWheel(deltaYPositive) ==
    Gesture([ag EXCEPT !.zoom = WheelZoom(@, deltaYPositive)])

\* lines 663-666
handleMouseDown(x, y) ==
    Gesture([ag EXCEPT !.isDragging = TRUE, !.lastMousePos = [x |-> x, y |-> y]])

\* faulty variant: handleMouseMove without the isDragging test
handleMouseMoveAlways(x, y) ==
    Gesture([ag EXCEPT !.panX = @ + (x - ag.lastMousePos.x),
                       !.panY = @ + (y - ag.lastMousePos.y),
                       !.lastMousePos = [x |-> x, y |-> y]])

\* lines 668-677
handleMouseMove(x, y) ==
    Gesture(IF ~ag.isDragging THEN ag
            ELSE [ag EXCEPT !.panX = @ + (x - ag.lastMousePos.x),
                            !.panY = @ + (y - ag.lastMousePos.y),
                            !.lastMousePos = [x |-> x, y |-> y]])

\* lines 679-681 (onMouseUp and onMouseLeave)
handleMouseUp == Gesture([ag EXCEPT !.isDragging = FALSE])

\* lines 683-685
zoomIn == Gesture([ag EXCEPT !.zoom = ZoomInStep(@)])

\* lines 687-689
zoomOut == Gesture([ag EXCEPT !.zoom = ZoomOutStep(@)])

\* lines 691-695
resetView == Gesture([ag EXCEPT !.zoom = ZoomUnit, !.panX = 0, !.panY = 0])

Coords == {0, 4}

----------------------------------------------------------------------------
(* Routing (App.tsx 7-17, Layout in Dashboard.tsx 398-423) *)

\* A navigation is a click on a <Link> or a traversal of the session
\* history (which outlives reloads, so it may hold any location); both
\* need the tab to be visible.  The first render has route = "none".
NavGuard ==
    /\ tabVisible
    /\ route = "none" \/ navs < MaxNav

NavCount == IF route = "none" THEN 0 ELSE navs + 1

\* the view that is left unmounts; only Dashboard's effect has a cleanup
IntervalsAfterUnmount ==
    IF route = "dash" THEN DashCleanup(intervals, inst) ELSE intervals

\* No request is aborted at unmount, but the continuation of a request of
\* an unmounted instance changes nothing (its setState calls are ignored):
\* such a request is no longer tracked.
StillTracked(inFlight) == { q \in inFlight : q.inst # inst }

\* <Route path="/" element={<Dashboard />} />: mount, then the effect
\* (Dashboard.tsx 15-70) runs fetchData and sets the interval
NavigateToDashboard ==
    /\ NavGuard
    /\ route # "dash"
    /\ route' = "dash" /\ traceId' = None
    /\ inst' = inst + 1 /\ navs' = NavCount /\ ops' = 0
    /\ dash' = [DashInitial EXCEPT !.loading = TRUE]
    /\ SendRound(inst + 1, StillTracked(rounds))
    /\ intervals' = IntervalsAfterUnmount \cup {inst + 1}
    /\ triggers' = Bump(triggers, {"dashMount"})
    /\ tv' = TraceViewInitial /\ ag' = AgentGraphInitial
    /\ lastRound' = None /\ lastGraph' = None
    /\ tvFetches' = StillTracked(tvFetches)
    /\ agFetches' = StillTracked(agFetches)
    /\ diagReqs' = StillTracked(diagReqs)
    /\ UNCHANGED <<tabVisible, askVars>>

\* <Route path="/trace/:traceId" element={<TraceView />} />: a change of
\* the parameter alone keeps the mounted TraceView and re-runs its effect
NavigateToTrace(id) ==
    /\ NavGuard
    /\ ~(route = "trace" /\ traceId = Some(id))
    /\ route' = "trace" /\ traceId' = Some(id)
    /\ navs' = NavCount
    /\ IF route = "trace"
       THEN /\ TraceIdChanged(id)
            /\ triggers' = Bump(triggers, {"tvIdChange"})
            /\ UNCHANGED <<inst, ops, intervals, rounds, agFetches, diagReqs>>
       ELSE /\ inst' = inst + 1 /\ ops' = 0
            /\ tv' = [TraceViewInitial EXCEPT !.loading = TRUE]
            /\ FetchTraceStart(inst + 1, id, StillTracked(tvFetches))
            /\ triggers' = Bump(triggers, {"tvMount"})
            /\ intervals' = IntervalsAfterUnmount
            /\ rounds' = StillTracked(rounds)
            /\ agFetches' = StillTracked(agFetches)
            /\ diagReqs' = StillTracked(diagReqs)
    /\ dash' = DashInitial /\ ag' = AgentGraphInitial
    /\ lastRound' = None /\ lastGraph' = None
    /\ UNCHANGED <<tabVisible, roundsStarted, askVars>>

\* <Route path="/agent-graph" element={<AgentGraph />} />
NavigateToGraph ==
    /\ NavGuard
    /\ route # "graph"
    /\ route' = "graph" /\ traceId' = None
    /\ inst' = inst + 1 /\ navs' = NavCount /\ ops' = 0
    /\ ag' = [AgentGraphInitial EXCEPT !.loading = TRUE]
    /\ FetchGraphStart(inst + 1, StillTracked(agFetches))
    /\ triggers' = Bump(triggers, {"agMount"})
    /\ intervals' = IntervalsAfterUnmount
    /\ dash' = DashInitial /\ tv' = TraceViewInitial
    /\ lastRound' = None /\ lastGraph' = None
    /\ rounds' = StillTracked(rounds)
    /\ tvFetches' = StillTracked(tvFetches)
    /\ diagReqs' = StillTracked(diagReqs)
    /\ UNCHANGED <<tabVisible, roundsStarted, askVars>>

\* the user hides or shows the browser tab
ToggleVisibility ==
    /\ tabVisible' = ~tabVisible
    /\ UNCHANGED <<route, traceId, inst, navs, dash, tv, ag, ops, intervals,
                   rounds, roundsStarted, lastRound, lastGraph,
                   tvFetches, agFetches,
                   diagReqs, sent, triggers,
                   askPending, posts, lastResp, app,
                   keyPresses>>

EvalInit ==
    /\ route = "none" /\ traceId = None /\ inst = 0 /\ navs = 0
    /\ tabVisible = TRUE
    /\ dash = DashInitial /\ tv = TraceViewInitial /\ ag = AgentGraphInitial
    /\ ops = 0 /\ intervals = {} /\ rounds = {} /\ roundsStarted = 0
    /\ lastRound = None /\ lastGraph = None
    /\ tvFetches = {} /\ agFetches = {} /\ diagReqs = {}
    /\ sent = [e \in Endpoints |-> 0]
    /\ triggers = [k \in TriggerKinds |-> 0]

\* what the backends may answer: every way a request can fail, and
\* every body
StatusAnswers == Responses(StatusBodies)
DashboardAnswers == Responses(DashboardBodies)
HistoryAnswers == Responses(HistoryBodies)

\* one failure (a non-ok status) and one body per endpoint
FailedResponse == [net |-> TRUE, ok |-> FALSE, json |-> None]
OkResponse(b) == [net |-> TRUE, ok |-> TRUE, json |-> Some(b)]
MainStatus == CHOOSE b \in StatusBodies : b.database.connected
MainDashboard == CHOOSE b \in DashboardBodies : b.total = MaxTraces
MainHistory == MkHistory(MaxHistory)

Navigation ==
    \/ NavigateToDashboard
    \/ \E id \in TraceIds : NavigateToTrace(id)
    \/ NavigateToGraph

Pagination ==
    \/ \E page \in 1..TotalPages(dash) : GoToPage(page)
    \/ GoToPrevious
    \/ GoToNext

TraceViewEvents ==
    \/ \E f \in tvFetches : \E resp \in Responses(TraceBodies(f.traceId)) :
          FetchTraceSettle(f, resp)
    \/ \E index \in 0..1 : TogglePreviewExpansion(index)
    \/ HandleDiagnose
    \/ \E q \in diagReqs, resp \in Responses(DiagnoseBodies) : DiagnoseSettle(q, resp)
    \/ CloseDiagnosisModal

AgentGraphEvents ==
    \/ \E f \in agFetches, resp \in Responses(GraphBodies) : FetchGraphSettle(f, resp)
    \/ \E d \in BOOLEAN : handleWheel(d)
    \/ \E x \in Coords, y \in Coords : handleMouseDown(x, y)
    \/ \E x \in Coords, y \in Coords : handleMouseMove(x, y)
    \/ handleMouseUp
    \/ zoomIn
    \/ zoomOut
    \/ resetView

\* the whole eval-server frontend, the Dashboard's backends answering
\* with one failure or one body each
EvalNext ==
    \/ Navigation
    \/ \E i \in intervals : DashTick(i)
    \/ \E r \in rounds, sr \in {FailedResponse, OkResponse(MainStatus)},
          dr \in {FailedResponse, OkResponse(MainDashboard)},
          ir \in {FailedResponse, OkResponse(MainHistory)} :
          FetchDataSettle(r, sr, dr, ir)
    \/ Pagination
    \/ TraceViewEvents
    \/ AgentGraphEvents

\* the zoom after k clicks on zoomIn (in = TRUE) or zoomOut from zoom = 1
RECURSIVE ZoomAfter(_, _)
ZoomAfter(in, k) ==
    IF k = 0 THEN ZoomUnit
    ELSE IF in THEN ZoomInStep(ZoomAfter(in, k - 1))
    ELSE ZoomOutStep(ZoomAfter(in, k - 1))

MainGraph == CHOOSE b \in GraphBodies : b.nodes[1].id = "__start__"

\* The AgentGraph once its graph has loaded and the user has clicked
\* zoomIn or zoomOut up to MaxZoomSteps times, with the mouse up or
\* pressed at a point of the canvas; ops counts the gestures from here on.
GraphInit ==
    \E in \in BOOLEAN, k \in 0..MaxZoomSteps, down \in BOOLEAN,
       x \in Coords, y \in Coords :
        LET loaded == FetchGraphContinuation(AgentGraphInitial,
                                             FetchJson(OkResponse(MainGraph)))
            zoomed == [loaded EXCEPT !.zoom = ZoomAfter(in, k)]
        IN  /\ route = "graph" /\ traceId = None /\ inst = 1 /\ navs = 0
            /\ tabVisible = TRUE
            /\ ag = IF down
                    THEN [zoomed EXCEPT !.isDragging = TRUE,
                                        !.lastMousePos = [x |-> x, y |-> y]]
                    ELSE zoomed
            /\ dash = DashInitial /\ tv = TraceViewInitial
            /\ ops = 0 /\ intervals = {} /\ rounds = {} /\ roundsStarted = 0
            /\ lastRound = None
            /\ lastGraph = Some(Outcome(OkResponse(MainGraph)))
            /\ tvFetches = {} /\ agFetches = {} /\ diagReqs = {}
            /\ sent = Bump([e \in Endpoints |-> 0], {"graph"})
            /\ triggers = Bump([t \in TriggerKinds |-> 0], {"agMount"})

\* the gestures on the canvas and the zoom buttons
GraphGestures ==
    \/ \E d \in BOOLEAN : handleWheel(d)
    \/ \E x \in Coords, y \in Coords : handleMouseDown(x, y)
    \/ \E x \in Coords, y \in Coords : handleMouseMove(x, y)
    \/ handleMouseUp
    \/ zoomIn
    \/ zoomOut
    \/ resetView

\* the agent graph is opened and the backend answers with a graph
LayoutNext ==
    \/ NavigateToGraph
    \/ \E f \in agFetches, b \in LayoutBodies : FetchGraphSettle(f, OkResponse(b))

\* The Dashboard once its first refresh round has been answered with the
\* main status, n traces and the main history.
PagesInit ==
    \E n \in 0..MaxListLen :
        LET sr == OkResponse(MainStatus)
            dr == OkResponse([total |-> n, trace_count |-> n, traces |-> MkTraces(n)])
            ir == OkResponse(MainHistory)
        IN  /\ route = "dash" /\ traceId = None /\ inst = 1 /\ navs = 0
            /\ tabVisible = TRUE
            /\ dash = FetchDataContinuation(DashInitial, FetchJson(sr),
                                            FetchJson(dr), FetchJson(ir))
            /\ lastRound = Some([status |-> Outcome(sr), dashboard |-> Outcome(dr),
                                 history |-> Outcome(ir)])
            /\ tv = TraceViewInitial /\ ag = AgentGraphInitial
            /\ lastGraph = None
            /\ ops = 0 /\ intervals = {1} /\ rounds = {} /\ roundsStarted = 1
            /\ tvFetches = {} /\ agFetches = {} /\ diagReqs = {}
            /\ sent = Bump([e \in Endpoints |-> 0], {"status", "dashboard", "history"})
            /\ triggers = Bump([k \in TriggerKinds |-> 0], {"dashMount"})

\* the Dashboard's life: it mounts, refreshes, is paged through, is left
\* for the agent graph and returned to, while the tab is hidden and shown
\* and the backends answer in every way
DashNext ==
    \/ NavigateToDashboard
    \/ NavigateToGraph
    \/ ToggleVisibility
    \/ \E i \in intervals : DashTick(i)
    \/ \E r \in rounds, sr \in StatusAnswers, dr \in DashboardAnswers,
          ir \in HistoryAnswers : FetchDataSettle(r, sr, dr, ir)
    \/ Pagination

----------------------------------------------------------------------------
(* The banking assistant (frontend: App and ResultCard, in
   src/frontend/src/components/ResultCard.tsx) *)

\* questions asked in one behaviour
MaxAsks == 2
\* length of the longest question typed
MaxQuestionLen == 2
\* Cmd/Ctrl+Enter presses in one behaviour
MaxKeyPresses == 2

\* A string is a sequence of characters; " " is white space.
Chars == {" ", "a"}
Questions == UNION { [1..n -> Chars] : n \in 0..MaxQuestionLen }

RECURSIVE TrimStart(_)
TrimStart(s) == IF s # <<>> /\ Head(s) = " " THEN TrimStart(Tail(s)) ELSE s

RECURSIVE TrimEnd(_)
TrimEnd(s) ==
    IF s # <<>> /\ s[Len(s)] = " " THEN TrimEnd(SubSeq(s, 1, Len(s) - 1)) ELSE s

\* String.prototype.trim
Trim(s) == TrimEnd(TrimStart(s))

\* A JSON value.  kind is its type; prim is the value of a number or a
\* string; the other fields are the keys of an object the program reads
\* (null: the key is absent or holds null, except result, where
\* <<JNull>> is a key holding null).
JNull == [kind |-> "null", prim |-> "", chartjs |-> None, image_base64 |-> None,
          answer |-> None, alt |-> None, result |-> None]
JPrim(kind, v) == [JNull EXCEPT !.kind = kind, !.prim = v]
JObject(c, img, ans, alt, res) ==
    [kind |-> "object", prim |-> "", chartjs |-> c, image_base64 |-> img,
     answer |-> ans, alt |-> alt, result |-> res]

ChartValues == {None, Some([type |-> "Line"]), Some([type |-> "pie"])}
ImageValues == {None, Some(""), Some("iVBOR")}
AnswerValues == {Some(<<" ">>), Some(<<"a">>)}
AltValues == {None, Some("Spending")}

\* values without a result key
PlainValues ==
    {JNull, JPrim("number", "0"), JPrim("number", "7"), JPrim("string", ""),
     JPrim("string", "ok"), JPrim("array", "")} \cup
    { JObject(c, img, ans, alt, None) :
        c \in ChartValues, img \in ImageValues, ans \in AnswerValues,
        alt \in AltValues }

\* the bodies /api/ask may answer: a value, or an object wrapping one
\* under the key result
AskBodies ==
    PlainValues \cup
    { JObject(None, None, None, None, Some(v)) :
        v \in {JNull, JPrim("number", "7"),
                JObject(None, Some("iVBOR"), Some(<<"a">>), None, None),
                JObject(Some([type |-> "pie"]), Some("iVBOR"), Some(<<"a">>),
                        Some("Spending"), None)} }

\* JavaScript truthiness
Truthy(j) ==
    \/ j.kind \in {"object", "array"}
    \/ j.kind = "number" /\ j.prim # "0"
    \/ j.kind = "string" /\ j.prim # ""

AppInitial == [question |-> <<>>, loading |-> FALSE, payload |-> JNull, error |-> None]

\* faulty variant: the result key is never unwrapped
NormalizeNever(data) == data

\* lines 105-108
Normalize(data) ==
    IF Truthy(data) /\ data.kind \in {"object", "array"} /\ data.result # None
    THEN data.result[1] ELSE data

\* line 117
canAsk == Len(Trim(app.question)) > 0 /\ ~app.loading

\* the textarea's onChange (line 130)
SetQuestion(q) ==
    /\ app.question # q
    /\ app' = [app EXCEPT !.question = q]
    /\ UNCHANGED <<askPending, posts, lastResp, keyPresses, evalVars>>

\* line 102
AskBody(q) == [question |-> q]

\* handleAsk up to the await (lines 89-103)
HandleAskStart ==
    LET q == Trim(app.question)
    IN  IF q = <<>>
        THEN /\ app' = [app EXCEPT !.error = Some("Please enter a question.")]
             /\ UNCHANGED <<askPending, posts, lastResp>>
        ELSE /\ app' = [app EXCEPT !.error = None, !.loading = TRUE,
                                   !.payload = JNull]
             /\ askPending' = Some(AskBody(q))
             /\ posts' = Append(posts, [url |-> "/api/ask", method |-> "POST",
                                        body |-> AskBody(q)])
             /\ UNCHANGED lastResp

\* a click on Ask (line 135): the button is disabled unless canAsk
ClickAsk ==
    /\ canAsk
    /\ Len(posts) < MaxAsks
    /\ HandleAskStart
    /\ UNCHANGED <<keyPresses, evalVars>>

\* Cmd/Ctrl+Enter is pressed in the question box.  The textarea has an
\* onChange handler only (lines 128-133) and the page has no key handler:
\* nothing of the App changes and no request is made.
KeyDownCmdEnter ==
    /\ keyPresses < MaxKeyPresses
    /\ keyPresses' = keyPresses + 1
    /\ UNCHANGED <<app, askPending, posts, lastResp, evalVars>>

\* handleAsk after the await (lines 104-114); response.ok is not looked at
HandleAskContinuation(a, resp) ==
    IF ~resp.net THEN [a EXCEPT !.error = Some("TypeError: Failed to fetch"),
                                !.loading = FALSE]
    ELSE IF resp.json = None
    THEN [a EXCEPT !.error = Some("SyntaxError: Unexpected token"),
                   !.loading = FALSE]
    ELSE [a EXCEPT !.payload = Normalize(resp.json[1]), !.loading = FALSE]

AskSettle(resp) ==
    /\ askPending # None
    /\ askPending' = None
    /\ app' = HandleAskContinuation(app, resp)
    /\ lastResp' = Some(resp)
    /\ UNCHANGED <<posts, keyPresses, evalVars>>

\* String.prototype.toLowerCase on the chart types that occur
ToLowerCase(s) == IF s = "Line" THEN "line" ELSE s

\* ResultCard (lines 10-76): the sections it renders for a payload
ResultCard(payload) ==
    LET chartPayload == payload.chartjs
        hasImage == payload.image_base64 # None /\ payload.image_base64[1] # ""
        answer == payload.answer
        type == ToLowerCase(IF chartPayload[1].type # "" THEN chartPayload[1].type
                            ELSE "bar")
        chart == IF type = "line" THEN "Line" ELSE "Bar"
    IN  (IF answer # None /\ Trim(answer[1]) # <<>> THEN {"answer"} ELSE {}) \cup
        (IF chartPayload # None THEN {chart} ELSE {}) \cup
        (IF hasImage /\ chartPayload = None THEN {"image"} ELSE {}) \cup
        {"details"}

\* what App renders below the input card (lines 140-151)
AppView ==
    [error |-> app.error,
     result |-> IF Truthy(app.payload) THEN ResultCard(app.payload) ELSE {},
     overlay |-> app.loading]

AskInit ==
    /\ app = AppInitial /\ askPending = None /\ posts = <<>> /\ lastResp = None
    /\ keyPresses = 0

AskNext ==
    \/ \E q \in Questions : SetQuestion(q)
    \/ ClickAsk
    \/ \E resp \in Responses(AskBodies) : AskSettle(resp)

\* one body /api/ask may answer
MainAnswer ==
    JObject(None, None, None, None,
            Some(JObject(None, Some("iVBOR"), Some(<<"a">>), None, None)))

\* the question box and the Ask button: typing, clicking and pressing
\* Cmd/Ctrl+Enter, the backend answering with one failure or one body
InputNext ==
    \/ \E q \in Questions : SetQuestion(q)
    \/ ClickAsk
    \/ KeyDownCmdEnter
    \/ \E resp \in {FailedResponse, OkResponse(MainAnswer)} : AskSettle(resp)

Init == EvalInit /\ AskInit

Spec == Init /\ [][EvalNext]_vars
SpecDash == Init /\ [][DashNext]_vars
SpecAsk == Init /\ [][AskNext]_vars
SpecInput == Init /\ [][InputNext]_vars
\* paging through a loaded trace list of any length up to MaxListLen
InitPages == PagesInit /\ AskInit
SpecPages == InitPages /\ [][Pagination]_vars
\* zooming and panning a loaded agent graph
\* laying out the nodes of every graph of LayoutBodies
SpecLayout == Init /\ [][LayoutNext]_vars
InitGraph == GraphInit /\ AskInit
SpecGraph == InitGraph /\ [][GraphGestures]_vars

----------------------------------------------------------------------------
(* Properties of the Dashboard's refresh rounds (SpecDash) *)

\* a round of the mounted Dashboard leaves flight in this step: its
\* continuation has run
RoundApplied ==
    /\ route = "dash" /\ route' = "dash" /\ inst' = inst
    /\ \E r \in rounds \ rounds' : r.inst = inst

C1_RoundData ==
    lastRound # None =>
        LET r == lastRound[1]
            history == r.history.body[1]
        IN  /\ dash.status = (IF r.status.ok THEN r.status.body ELSE None)
            /\ dash.traces = (IF r.dashboard.ok THEN r.dashboard.body[1].traces
                              ELSE <<>>)
            /\ dash.interventions =
                  (IF r.history.ok
                   THEN [i \in 1..Min(5, Len(history)) |-> history[i]]
                   ELSE <<>>)

\* C1: whichever of the three requests of a refresh round succeed or fail
\* (a non-ok HTTP status is a failure), the round completes with loading
\* false, and status, traces and interventions hold the round's response
\* (the status; the traces; the first five interventions) where the request
\* succeeded and null, [], [] where it failed.
C1_SettleAll ==
    /\ []C1_RoundData
    /\ [][RoundApplied => ~dash'.loading]_vars

\* a round has completed in which the status request succeeded, the
\* dashboard request was answered with a non-ok status and the history
\* request returned more than five interventions
C1_Witness ==
    /\ lastRound # None
    /\ lastRound[1].status.ok
    /\ ~lastRound[1].dashboard.ok
    /\ lastRound[1].history.ok
    /\ Len(lastRound[1].history.body[1]) > 5
    /\ Len(dash.interventions) = 5
    /\ dash.status # None /\ dash.traces = <<>>
    /\ ~dash.loading

\* C2: after a refresh round the top-level error is set, to 'Failed to
\* fetch dashboard data', exactly when both the status request and the
\* dashboard request failed; the outcome of the history request does
\* not matter.
C2_ErrorIffBothCoreFailed ==
    lastRound # None =>
        /\ dash.error # None <=>
              (~lastRound[1].status.ok /\ ~lastRound[1].dashboard.ok)
        /\ dash.error \in {None, Some(FetchError)}

\* a round has completed in which the history request and the status
\* request failed and the dashboard request succeeded: no error
C2_Witness ==
    /\ lastRound # None
    /\ ~lastRound[1].history.ok
    /\ ~lastRound[1].status.ok
    /\ lastRound[1].dashboard.ok
    /\ dash.error = None

C4_PausedWhileHidden ==
    [][~tabVisible => roundsStarted' = roundsStarted]_vars

\* C5: once the Dashboard has unmounted its interval is cleared (the only
\* live interval is the mounted Dashboard's), and a refresh round is only
\* ever started for the mounted Dashboard.
C5_NoRefreshAfterUnmount ==
    /\ [](intervals \subseteq (IF route = "dash" THEN {inst} ELSE {}))
    /\ [][roundsStarted' # roundsStarted =>
            /\ route' = "dash"
            /\ \A r \in rounds' \ rounds : r.inst = inst']_vars

\* a Dashboard that had refreshed on a tick has been left for another view
C5_Witness ==
    /\ route = "graph"
    /\ triggers.dashMount >= 1 /\ triggers.tick >= 1
    /\ intervals = {}
    /\ rounds = {}

\* C17 as claimed: refresh rounds take effect in start order.  When the
\* results of a round are written, no round started after it has had its
\* results written before: every round started later (all are rounds of
\* the mounted Dashboard) is still in flight.
C17_RoundsInStartOrder ==
    [][RoundApplied =>
         \A r \in rounds \ rounds' :
             \A k \in (r.id + 1)..roundsStarted : \E q \in rounds : q.id = k]_vars

\* the full-page 'Loading dashboard...' view (lines 72-79)
LoadingView == route = "dash" /\ dash.loading /\ dash.status = None

\* C18 as claimed: once the dashboard content is displayed, nothing that
\* happens to the mounted Dashboard brings back the full-page loading view.
C18_NoLoadingViewAfterContent ==
    [][(DashRendered /\ route' = "dash" /\ inst' = inst) => ~LoadingView']_vars

----------------------------------------------------------------------------
(* Properties of the Dashboard's pagination (SpecPages, SpecDash) *)

\* page p of the list as the Dashboard displays it
PageShown(p) == CurrentTraces([dash EXCEPT !.currentPage = p])

InRange(d) == 1 <= d.currentPage /\ d.currentPage <= TotalPages(d)

RECURSIVE Concat(_, _)
Concat(f, k) == IF k = 0 THEN <<>> ELSE Concat(f, k - 1) \o f[k]

\* C13: with n traces, totalPages is ceil(n / 10); page p of 1..totalPages
\* shows traces[10(p-1) .. min(10p, n) - 1] in list order; the pages in
\* order make up the list, so each trace is on exactly one page; only
\* the last page may have fewer than 10 rows, and no page is empty.
C13_PagesPartition ==
    LET n == Len(dash.traces)
        total == TotalPages(dash)
    IN  /\ 10 * total >= n
        /\ 10 * (total - 1) < n
        /\ \A p \in 1..total :
              /\ Len(PageShown(p)) = Min(10 * p, n) - 10 * (p - 1)
              /\ \A i \in 1..Len(PageShown(p)) :
                    PageShown(p)[i] = dash.traces[10 * (p - 1) + i]
              /\ p < total => Len(PageShown(p)) = 10
              /\ Len(PageShown(p)) >= 1
        /\ Concat([p \in 1..total |-> PageShown(p)], total) = dash.traces
        /\ InRange(dash) => CurrentTraces(dash) = PageShown(dash.currentPage)

\* the third and last page of a list of 25 traces is displayed: rows 21-25
C13_Witness ==
    /\ Len(dash.traces) = 25
    /\ dash.currentPage = 3
    /\ TotalPages(dash) = 3
    /\ Len(CurrentTraces(dash)) = 5
    /\ CurrentTraces(dash)[1] = TraceRowOf(21)

C15_Updates ==
    InRange(dash) =>
        /\ goToPrevious(dash).currentPage =
              (IF dash.currentPage = 1 THEN 1 ELSE dash.currentPage - 1)
        /\ goToNext(dash).currentPage =
              (IF dash.currentPage = TotalPages(dash) THEN dash.currentPage
               ELSE dash.currentPage + 1)
        /\ InRange(goToPrevious(dash)) /\ InRange(goToNext(dash))
        /\ goToPrevious(dash).traces = dash.traces
        /\ goToNext(dash).traces = dash.traces

\* C15: from a page within 1..totalPages, goToPrevious stays at page 1 and
\* otherwise goes one page back, goToNext stays at the last page and
\* otherwise goes one page on, neither leaves 1..totalPages nor changes
\* traces; a click on Previous or Next moves by exactly one page.
C15_PreviousNextClamped ==
    /\ []C15_Updates
    /\ [][(InRange(dash) /\ GoToPrevious) =>
             (dash'.currentPage = dash.currentPage - 1 /\ InRange(dash')
              /\ dash'.traces = dash.traces)]_vars
    /\ [][(InRange(dash) /\ GoToNext) =>
             (dash'.currentPage = dash.currentPage + 1 /\ InRange(dash')
              /\ dash'.traces = dash.traces)]_vars

\* the last of four pages is displayed, where Next changes nothing and
\* Previous goes to page 3
C15_Witness ==
    /\ PaginationRendered
    /\ TotalPages(dash) = 4 /\ dash.currentPage = 4
    /\ goToNext(dash) = dash
    /\ goToPrevious(dash).currentPage = 3

Buttons(bar) == { p \in DOMAIN bar : bar[p] = "button" }
Ellipses(bar) == { p \in DOMAIN bar : bar[p] = "ellipsis" }

\* C16: with more than one page and the current page in range, the page
\* buttons are those of page 1, the last page and the pages
\* currentPage-1 .. currentPage+1 in range; between two consecutive
\* buttons that are not adjacent there is exactly one ellipsis, and there
\* is no ellipsis anywhere else.
C16_PageWindow ==
    (PaginationRendered /\ InRange(dash)) =>
        LET bar == PageBar(dash)
            total == TotalPages(dash)
            shown == Buttons(bar)
            gaps == { g \in shown \X shown :
                        /\ g[1] + 1 < g[2]
                        /\ \A q \in shown : ~(g[1] < q /\ q < g[2]) }
        IN  /\ shown = ({1, total} \cup
                         ((dash.currentPage - 1)..(dash.currentPage + 1)))
                        \cap 1..total
            /\ \A g \in gaps :
                  Cardinality({ p \in Ellipses(bar) : g[1] < p /\ p < g[2] }) = 1
            /\ Cardinality(Ellipses(bar)) = Cardinality(gaps)

\* page 4 of 7 is displayed: buttons 1, 3, 4, 5, 7 with an ellipsis on
\* either side
C16_Witness ==
    /\ PaginationRendered
    /\ TotalPages(dash) = 7 /\ dash.currentPage = 4
    /\ PageBar(dash) = <<"button", "ellipsis", "button", "button", "button",
                         "ellipsis", "button">>

----------------------------------------------------------------------------
(* Properties of the views and the router (Spec) *)

ViewStateInitial ==
    /\ dash.currentPage = 1
    /\ ag.zoom = ZoomUnit /\ ag.panX = 0 /\ ag.panY = 0 /\ ~ag.isDragging
    /\ tv.expandedPreviews = {}
    /\ tv.diagnosis = None /\ tv.diagnosisError = None
    /\ ~tv.showDiagnosisModal

\* C6 as claimed: every navigation, a change of the trace id included,
\* starts the target view with its view state at the initial values.
C6_ResetOnEveryNavigation ==
    [][(route' # route \/ traceId' # traceId) => ViewStateInitial']_vars

\* C7: no request is a retry.  The trace-details requests issued are one
\* per TraceView mount or trace-id change, the agent-graph requests one
\* per AgentGraph mount, and the Dashboard's three requests one each per
\* mount and interval tick, whatever has failed.
C7_NoRetry ==
    /\ sent.trace = triggers.tvMount + triggers.tvIdChange
    /\ sent.graph = triggers.agMount
    /\ sent.status = triggers.dashMount + triggers.tick
    /\ sent.dashboard = sent.status
    /\ sent.history = sent.status

\* a trace-details request made on a change of the trace id has failed
\* and nothing is in flight
C7_Witness ==
    /\ route = "trace"
    /\ triggers.tvIdChange >= 1
    /\ tv.error # None
    /\ tvFetches = {}
    /\ sent.trace = 2

\* C8 as claimed: in each view the loading flag is true exactly while a
\* fetch of the mounted view is in flight.
C8_LoadingIffInFlight ==
    /\ route = "dash" => (dash.loading <=> \E r \in rounds : r.inst = inst)
    /\ route = "trace" => (tv.loading <=> \E f \in tvFetches : f.inst = inst)
    /\ route = "graph" => (ag.loading <=> \E f \in agFetches : f.inst = inst)

\* a request to url reaches a backend through the dev server's proxy
ThroughProxy(url) ==
    /\ url.origin = ""
    /\ url.path # <<>> /\ Head(url.path) \in {"api", "brain"}
    /\ Proxy(url) # None

\* C11 as claimed: every request the eval-server frontend has issued went
\* to a path under /api or under /brain, which the proxy forwards.
C11_AllThroughProxy ==
    \A e \in Endpoints : \A id \in TraceIds :
        sent[e] > 0 => ThroughProxy(RequestUrl(e, id))

----------------------------------------------------------------------------
(* Properties of the AgentGraph's zoom and pan (SpecGraph) *)

\* C19: in every state of the AgentGraph 0.1 <= zoom <= 3, whatever wheel
\* events and clicks on zoomIn, zoomOut and resetView have happened.
C19_ZoomBounds ==
    /\ ZoomMin <= ag.zoom
    /\ ag.zoom <= ZoomMax

\* the zoom is at its lower bound after further gestures
C19_Witness ==
    /\ GraphRendered
    /\ ops >= 1
    /\ ag.zoom = ZoomMin

Pan(g) == <<g.panX, g.panY>>

\* a mouse-move to (x, y) while a drag is active
DragMoveTo(x, y) == ag.isDragging /\ handleMouseMove(x, y)

\* C20: panX and panY change only on a mouse-move during a drag or on
\* resetView; a mouse-move during a drag changes them by the displacement
\* from the previous mouse event of the drag (the mousedown or the last
\* move, whose position lastMousePos holds); a mouse-move outside a drag,
\* a mousedown, a mouseup or mouseleave, a wheel event, zoomIn and
\* zoomOut leave them unchanged.
C20_PanFrame ==
    /\ [][Pan(ag') # Pan(ag) =>
            (resetView \/ \E x \in Coords, y \in Coords : DragMoveTo(x, y))]_vars
    /\ [][\A x \in Coords, y \in Coords :
            DragMoveTo(x, y) =>
                /\ ag'.panX = ag.panX + (x - ag.lastMousePos.x)
                /\ ag'.panY = ag.panY + (y - ag.lastMousePos.y)
                /\ ag'.lastMousePos = [x |-> x, y |-> y]]_vars
    /\ [][\A x \in Coords, y \in Coords :
            handleMouseDown(x, y) =>
                (ag'.lastMousePos = [x |-> x, y |-> y] /\ ag'.isDragging)]_vars
    /\ [][(ag.isDragging /\ ag'.lastMousePos # ag.lastMousePos) =>
            \E x \in Coords, y \in Coords :
                handleMouseDown(x, y) \/ DragMoveTo(x, y)]_vars
    /\ [][(\/ (~ag.isDragging /\
                 \E x \in Coords, y \in Coords : handleMouseMove(x, y))
            \/ (\E x \in Coords, y \in Coords : handleMouseDown(x, y))
            \/ handleMouseUp
            \/ (\E d \in BOOLEAN : handleWheel(d))
            \/ zoomIn
            \/ zoomOut) => Pan(ag') = Pan(ag)]_vars

\* a drag that started at (0, 4) has moved to (4, 4) and then to (4, 0)
C20_Witness ==
    /\ GraphRendered
    /\ ag.isDragging
    /\ ops = 2
    /\ ag.lastMousePos = [x |-> 4, y |-> 0]
    /\ ag.panX = 4 /\ ag.panY = -4

\* the table of the eight workflow nodes, as the claim states it
C21_Table ==
    ("__start__" :> <<400, 50>>) @@ ("plan_workflow" :> <<400, 150>>) @@
    ("guardrails" :> <<200, 250>>) @@ ("db_agent" :> <<300, 350>>) @@
    ("viz_agent" :> <<400, 350>>) @@ ("web_agent" :> <<500, 350>>) @@
    ("respond" :> <<400, 450>>) @@ ("__end__" :> <<400, 550>>)

\* the position the claim gives the node id of the input list nodes
C21_Position(nodes, id) ==
    IF id \in DOMAIN C21_Table THEN C21_Table[id]
    ELSE LET i == (CHOOSE k \in 1..Len(nodes) :
                      /\ nodes[k].id = id
                      /\ \A j \in 1..(k - 1) : nodes[j].id # id) - 1
         IN  <<100 + (i % 5) * 150, 100 + (i \div 5) * 100>>

\* the nodes of the loaded graph are positioned as the claim says, given
\* the nodes the backend sent
C21_Positioned(positioned) ==
    LET data == lastGraph[1].body[1]
        out == ag.graphData[1].nodes
    IN  /\ { out[k].id : k \in DOMAIN out } =
              { data.nodes[k].id : k \in DOMAIN data.nodes }
        /\ \A k \in DOMAIN out :
              out[k].id \in positioned =>
                  /\ out[k].x = Some(C21_Position(data.nodes, out[k].id)[1])
                  /\ out[k].y = Some(C21_Position(data.nodes, out[k].id)[2])
        /\ \A es \in LayoutEdges : positionNodes(data.nodes, es) = out

GraphLoaded ==
    /\ route = "graph" /\ ag.graphData # None
    /\ lastGraph # None /\ lastGraph[1].ok

\* C21 as claimed: positionNodes gives every node with one of the eight
\* ids of the table the table's position and every other node the grid
\* position x = 100 + (i mod 5) * 150, y = 100 + floor(i / 5) * 100, i
\* the index in the input list of the first node with its id; the edges
\* have no influence.
C21_PositionNodes ==
    GraphLoaded =>
        C21_Positioned({ n.id : n \in { lastGraph[1].body[1].nodes[k] :
                                          k \in DOMAIN lastGraph[1].body[1].nodes } })

\* the same for the nodes whose id is not the name of a member of
\* Object.prototype
C21_OwnNamesPositioned ==
    GraphLoaded =>
        C21_Positioned({ n.id : n \in { lastGraph[1].body[1].nodes[k] :
                                          k \in DOMAIN lastGraph[1].body[1].nodes } }
                       \ ObjectPrototypeKeys)

----------------------------------------------------------------------------
(* Properties of the banking assistant (SpecAsk, SpecInput) *)

\* C9 as claimed: a payload with a non-empty image_base64 given to
\* ResultCard has its image rendered, whatever its other fields are.
C9_ImageRendered ==
    (/\ Truthy(app.payload)
     /\ app.payload.image_base64 # None
     /\ app.payload.image_base64[1] # "")
    => "image" \in AppView.result

C10_Result ==
    (lastResp # None /\ ~app.loading) =>
        LET resp == lastResp[1]
            data == resp.json[1]
        IN  IF resp.net /\ resp.json # None
            THEN app.payload =
                    (IF data.kind = "object" /\ data.result # None
                     THEN data.result[1] ELSE data)
            ELSE app.error # None /\ app.payload = JNull

C10_Post ==
    /\ (~app.loading /\ app'.loading) <=> posts' # posts
    /\ posts' # posts =>
          /\ Trim(app.question) # <<>>
          /\ posts' = Append(posts, [url |-> "/api/ask", method |-> "POST",
                                     body |-> [question |-> Trim(app.question)]])

\* C10: handleAsk with a non-blank question sends exactly one POST to
\* /api/ask whose body is the trimmed question; when the response parses
\* as JSON the payload is data.result if data is an object with a result
\* key and data otherwise; when the request or the parse fails, error is
\* set and payload stays null.
C10_HandleAsk ==
    /\ []C10_Result
    /\ [][C10_Post]_vars

\* a question typed with a leading blank was sent trimmed, and the answer,
\* an object with a result key, was unwrapped into the payload
C10_Witness ==
    /\ app.question = <<" ", "a">>
    /\ Len(posts) = 1 /\ posts[1].body.question = <<"a">>
    /\ ~app.loading
    /\ lastResp # None /\ lastResp[1].json # None
    /\ lastResp[1].json[1].result # None
    /\ app.payload = lastResp[1].json[1].result[1]
    /\ Truthy(app.payload)

\* C12 as claimed: Cmd/Ctrl+Enter in the question box submits, as a click
\* on Ask in the same state does: where the button is enabled the press
\* starts handleAsk.
C12_CmdEnterSubmits ==
    [][(keyPresses' # keyPresses /\ canAsk) => HandleAskStart]_vars

====
